---- MODULE Spec2Model ----
(***************************************************************************)
(* A model of vispy/scene/visuals/mesh.py: the Mesh visual.                *)
(*                                                                         *)
(* The node keeps a MeshData, a uniform color, a shading mode, a dirty     *)
(* flag (_data_changed), four gloo buffers (_vertices, _normals, _faces,   *)
(* _colors), the representation flag (_indexed) and a ModularProgram with  *)
(* its named inputs.  Its operations are set_data, mesh_data_changed, the  *)
(* shading setter and draw (which calls _update_data).                     *)
(*                                                                         *)
(* Python values: None is the string "None", True/False of _indexed are    *)
(* the strings "True"/"False" (the field starts as None).  A gloo/MeshData *)
(* call that raises is an input of Draw: fail = k says that step k of the  *)
(* request raises; the assignments made before it stay, as in Python.      *)
(***************************************************************************)
EXTENDS Integers, Sequences, FiniteSets

\* ------------------------------------------------------------- bounds
\* Number of faces of the meshes handed to the node (a strip of MaxFaces
\* triangles over MaxFaces + 2 vertices).
MaxFaces == 2

\* Number of requests (set_data, mesh_data_changed, shading, draw) made to
\* the node after its construction.
MaxRequests == 3

\* Size of the zero-filled position buffer made by __init__ (line 87).
InitVertexCount == 300

\* ------------------------------------------------------------- inputs
Shadings == {"None", "flat", "smooth"}

\* Values a caller may hand to the shading setter; "phong" is not a
\* shading mode of the node.
ShadingInputs == Shadings \cup {"phong"}

\* Uniform RGBA colors; DefaultColor is the default of __init__ (line 72).
DefaultColor == "c_default"
Colors == {DefaultColor, "c_red"}

\* Render transforms carried by draw events.
Transforms == {"T1", "T2"}

\* ------------------------------------------------------------- MeshData
\* The mesh container (vispy.util.meshdata.MeshData) as the node sees it:
\* nv vertices, a sequence of faces (vertex-index triples), optional
\* per-vertex and per-face colors (<<>> when absent), and whether the mesh
\* carries face-indexed vertex data.
StripFaces(nf) == [j \in 1..nf |-> <<j, j + 1, j + 2>>]

VertexColorsOf(nv) == [i \in 1..nv |-> IF i % 2 = 1 THEN "red" ELSE "green"]

FaceColorsOf(nf) == [j \in 1..nf |-> IF j % 2 = 1 THEN "blue" ELSE "white"]

Meshes ==
    { [nv |-> nf + 2,
       faces |-> StripFaces(nf),
       vertex_colors |-> IF vc THEN VertexColorsOf(nf + 2) ELSE <<>>,
       face_colors |-> IF fc THEN FaceColorsOf(nf) ELSE <<>>,
       face_indexed |-> fi] :
      nf \in {MaxFaces}, vc \in BOOLEAN, fc \in BOOLEAN, fi \in BOOLEAN }

NFaces(md) == Len(md.faces)

\* A mesh as section 3 of the specification requires it: the faces index
\* existing vertices, and a color array has one entry per vertex / per face.
ValidMesh(md) ==
    /\ \A j \in 1..NFaces(md) : \A c \in 1..3 : md.faces[j][c] \in 1..md.nv
    /\ md.vertex_colors # <<>> => Len(md.vertex_colors) = md.nv
    /\ md.face_colors # <<>> => Len(md.face_colors) = NFaces(md)

\* Malformed data a caller may hand to set_data: a per-face color array with
\* one entry more than the mesh has faces.
MalformedMeshes ==
    { [nv |-> MaxFaces + 2,
       faces |-> StripFaces(MaxFaces),
       vertex_colors |-> <<>>,
       face_colors |-> FaceColorsOf(MaxFaces + 1),
       face_indexed |-> FALSE] }

\* The data set_data is called with.
MeshInputs == Meshes \cup MalformedMeshes

\* Corner k (1..3*nf) of the face-expanded layout: its face and its vertex.
FaceOfCorner(k) == ((k - 1) \div 3) + 1
VertexOfCorner(md, k) == md.faces[FaceOfCorner(k)][((k - 1) % 3) + 1]

has_face_indexed_data(md) == md.face_indexed
has_vertex_color(md) == md.vertex_colors # <<>>
has_face_color(md) == md.face_colors # <<>>

\* md.vertices(): the shared vertex array; a position is <<"v", i>>.
md_vertices(md) == [i \in 1..md.nv |-> <<"v", i>>]
\* md.vertices(indexed='faces'): one position per face corner.
md_vertices_by_faces(md) ==
    [k \in 1..(3 * NFaces(md)) |-> <<"v", VertexOfCorner(md, k)>>]
\* md.faces(): the index triples.
md_faces(md) == md.faces
\* md.vertex_normals(): one normal per vertex.
md_vertex_normals(md) == [i \in 1..md.nv |-> <<"vn", i>>]
md_vertex_normals_by_faces(md) ==
    [k \in 1..(3 * NFaces(md)) |-> <<"vn", VertexOfCorner(md, k)>>]
\* md.face_normals(indexed='faces'): each corner of a face gets its normal.
md_face_normals_by_faces(md) ==
    [k \in 1..(3 * NFaces(md)) |-> <<"fn", FaceOfCorner(k)>>]
md_vertex_colors(md) == md.vertex_colors
md_vertex_colors_by_faces(md) ==
    [k \in 1..(3 * NFaces(md)) |-> md.vertex_colors[VertexOfCorner(md, k)]]
md_face_colors(md) == md.face_colors
md_face_colors_by_faces(md) ==
    [k \in 1..(3 * NFaces(md)) |-> md.face_colors[FaceOfCorner(k)]]

\* ------------------------------------------------------------- state
VARIABLES
    node,       \* the Mesh visual: a record of its fields
                \*   meshdata      self._meshdata
                \*   color         self._color (uniform color)
                \*   shading       self._shading
                \*   data_changed  self._data_changed (the dirty flag)
                \*   vertices      self._vertices: [id, data], id names the
                \*                 buffer object
                \*   normals       contents of self._normals
                \*   faces         contents of self._faces (index buffer)
                \*   colors        contents of self._colors
                \*   indexed       self._indexed: "None", "True" or "False"
                \*   program       named inputs of self._program
    gl_state,   \* render state set through gloo.set_state
    last,       \* the last request: what it was and what it did
    prev,       \* the request before the last one: its operation and error
    drawn,      \* number of draw requests completed so far
    requests    \* number of requests made so far

vars == <<node, gl_state, last, prev, drawn, requests>>

\* Identities of position buffer objects.  At most two are alive at a time
\* (the node's and the one the program still binds), so three suffice.
BufIds == 1..3

\* gloo.VertexBuffer(v): a new object, distinct from every live one.
NewBufferId(self) ==
    CHOOSE i \in BufIds :
        /\ i # self.vertices.id
        /\ i # self.program.position
        /\ \A j \in BufIds :
              (j # self.vertices.id /\ j # self.program.position) => i <= j

\* The program after ModularProgram(vertex_template, fragment_template):
\* no input is bound yet (0 / "unset").
Unbound == [kind |-> "unset", value |-> "None"]

EmptyProgram ==
    [position |-> 0, color_var |-> Unbound, normal_var |-> "unset",
     frag_color |-> "unset", transform |-> "unset"]

\* ------------------------------------------------------------- _update_data
\* The calls of one draw request that may raise, in program order:
\*   1 position data / buffer      (lines 133, 142-144)
\*   2 _normals.set_data           (lines 134, 146, 148)
\*   3 _faces.set_data             (line 135)
\*   4 _colors.set_data, vertex    (lines 138, 151)
\*   5 _colors.set_data, face      (lines 140, 153)
\*   6 vert['position']            (line 156)
\*   7 vert[color_var]             (line 165)
\*   8 vert[normal_var]            (line 174)
\*   9 frag['color']               (lines 169, 182)
\*  10 vert['transform']           (line 200)
StepPosition == 1
StepNormals == 2
StepFaces == 3
StepVertexColors == 4
StepFaceColors == 5
StepBindPosition == 6
StepBindColor == 7
StepBindNormal == 8
StepBindFrag == 9
StepBindTransform == 10
UpdateSteps == StepPosition..StepBindFrag
Steps == StepPosition..StepBindTransform

\* Step k is reached and completes when nothing raised (fail = 0) or the
\* step that raises comes later.
Ran(fail, k) == fail = 0 \/ k < fail

\* Mutant of UseIndexed: the "not" of line 132 is dropped.
UseIndexedWithoutNot(self) ==
    self.shading = "smooth" /\ has_face_indexed_data(self.meshdata)

\* Line 132: the indexed representation is chosen for smooth shading of a
\* mesh without face-indexed data.
UseIndexed(self) ==
    self.shading = "smooth" /\ ~has_face_indexed_data(self.meshdata)

\* Which of the calls above the request makes, given the path it takes.
StepExists(self, k) ==
    LET md == self.meshdata IN
    CASE k = StepPosition -> TRUE
      [] k = StepNormals ->
            UseIndexed(self) \/ self.shading \in {"smooth", "flat"}
      [] k = StepFaces -> UseIndexed(self)
      [] k = StepVertexColors -> has_vertex_color(md)
      [] k = StepFaceColors ->
            IF UseIndexed(self) THEN has_face_color(md)
            ELSE ~has_vertex_color(md) /\ has_face_color(md)
      [] k = StepBindNormal -> self.shading # "None"
      [] OTHER -> TRUE

\* Lines 137-140: colors of the indexed path (two independent ifs).
IndexedColors(self, fail) ==
    LET md == self.meshdata
        c1 == IF has_vertex_color(md) /\ Ran(fail, StepVertexColors)
              THEN md_vertex_colors(md) ELSE self.colors
    IN  IF has_face_color(md) /\ Ran(fail, StepFaceColors)
        THEN md_face_colors(md) ELSE c1

\* Lines 150-153: colors of the expanded path (if / elif).
ExpandedColors(self, fail) ==
    LET md == self.meshdata IN
    IF has_vertex_color(md)
    THEN IF Ran(fail, StepVertexColors)
         THEN md_vertex_colors_by_faces(md) ELSE self.colors
    ELSE IF has_face_color(md) /\ Ran(fail, StepFaceColors)
         THEN md_face_colors_by_faces(md) ELSE self.colors

\* Mutant of ExpandedNormals: the flat branch (line 148) emits the
\* per-vertex normals, like the smooth branch.
ExpandedNormalsVertexOnly(self, fail) ==
    LET md == self.meshdata IN
    IF ~Ran(fail, StepNormals) THEN self.normals
    ELSE IF self.shading \in {"smooth", "flat"}
         THEN md_vertex_normals_by_faces(md)
    ELSE self.normals

\* Lines 145-148: normals of the expanded path; untouched when unlit.
ExpandedNormals(self, fail) ==
    LET md == self.meshdata IN
    IF ~Ran(fail, StepNormals) THEN self.normals
    ELSE IF self.shading = "smooth" THEN md_vertex_normals_by_faces(md)
    ELSE IF self.shading = "flat" THEN md_face_normals_by_faces(md)
    ELSE self.normals

\* Mutant of IndexedGeometry: the index buffer is not filled (line 135 is
\* missing).
IndexedGeometryWithoutFaces(self, fail) ==
    LET md == self.meshdata IN
    [self EXCEPT
        !.vertices = IF Ran(fail, StepPosition)
                     THEN [id |-> self.vertices.id, data |-> md_vertices(md)]
                     ELSE @,
        !.normals = IF Ran(fail, StepNormals)
                    THEN md_vertex_normals(md) ELSE @,
        !.indexed = IF Ran(fail, StepFaces) THEN "True" ELSE @,
        !.colors = IndexedColors(self, fail)]

\* Lines 133-140: the indexed path; the buffers are updated in place.
IndexedGeometry(self, fail) ==
    LET md == self.meshdata IN
    [self EXCEPT
        !.vertices = IF Ran(fail, StepPosition)
                     THEN [id |-> self.vertices.id, data |-> md_vertices(md)]
                     ELSE @,
        !.normals = IF Ran(fail, StepNormals)
                    THEN md_vertex_normals(md) ELSE @,
        !.faces = IF Ran(fail, StepFaces) THEN md_faces(md) ELSE @,
        !.indexed = IF Ran(fail, StepFaces) THEN "True" ELSE @,
        !.colors = IndexedColors(self, fail)]

\* Lines 142-153: the expanded path; the position buffer is a new object
\* (line 144), _faces is not touched.
ExpandedGeometry(self, fail) ==
    LET md == self.meshdata IN
    [self EXCEPT
        !.vertices = IF Ran(fail, StepPosition)
                     THEN [id |-> NewBufferId(self),
                           data |-> md_vertices_by_faces(md)]
                     ELSE @,
        !.normals = ExpandedNormals(self, fail),
        !.indexed = IF Ran(fail, StepNormals) THEN "False" ELSE @,
        !.colors = ExpandedColors(self, fail)]

\* Lines 159-164: the color bound to the color varying.
ColorSource(self) ==
    LET md == self.meshdata IN
    IF ~has_vertex_color(md) /\ ~has_face_color(md)
    THEN [kind |-> "uniform", value |-> self.color]
    ELSE [kind |-> "attribute", value |-> "_colors"]

\* Mutant of FragColor: line 168 tests for smooth shading instead of None,
\* so flat shading is left unlit.
FragColorLitWhenSmooth(self) ==
    IF self.shading = "smooth" THEN "phong(color_var)" ELSE "color_var"

\* Lines 168-182: the fragment color, with or without the lighting function.
FragColor(self) ==
    IF self.shading = "None" THEN "color_var" ELSE "phong(color_var)"

\* Mutant of BindProgram: the position input is bound only while it is
\* unbound, not at every materialization (line 156).
BindProgramPositionOnce(s, fail) ==
    [s EXCEPT
        !.program = [@ EXCEPT
            !.position = IF Ran(fail, StepBindPosition) /\ @ = 0
                         THEN s.vertices.id ELSE @,
            !.color_var = IF Ran(fail, StepBindColor)
                          THEN ColorSource(s) ELSE @,
            !.normal_var = IF s.shading # "None" /\ Ran(fail, StepBindNormal)
                           THEN "_normals" ELSE @,
            !.frag_color = IF Ran(fail, StepBindFrag)
                           THEN FragColor(s) ELSE @]]

\* Lines 156-182: the bindings of the program; s is the node after the
\* geometry part.
BindProgram(s, fail) ==
    [s EXCEPT
        !.program = [@ EXCEPT
            !.position = IF Ran(fail, StepBindPosition)
                         THEN s.vertices.id ELSE @,
            !.color_var = IF Ran(fail, StepBindColor)
                          THEN ColorSource(s) ELSE @,
            !.normal_var = IF s.shading # "None" /\ Ran(fail, StepBindNormal)
                           THEN "_normals" ELSE @,
            !.frag_color = IF Ran(fail, StepBindFrag)
                           THEN FragColor(s) ELSE @]]

\* Lines 128-182.
UpdateData(self, fail) ==
    BindProgram(IF UseIndexed(self) THEN IndexedGeometry(self, fail)
                ELSE ExpandedGeometry(self, fail), fail)

\* ------------------------------------------------------------- requests
StepNames ==
    <<"vertices", "normals", "faces", "vertex_colors", "face_colors",
      "bind_position", "bind_color", "bind_normal", "bind_frag",
      "bind_transform">>

\* What a request reports: the operation, its argument (the value given to
\* the shading setter, the render transform of a draw event, else "None"),
\* the error it raised ("none" when it returned) and the step that raised
\* it (0: none), whether it ran _update_data, the gloo / program calls it
\* completed, in order, and the draw call it issued.
Report(op, arg, fail, error, updated, calls, drawcall) ==
    [op |-> op, arg |-> arg, failed_step |-> fail, error |-> error,
     updated |-> updated, calls |-> calls, drawcall |-> drawcall]

\* Mutant of ShadingAccepts: the assert of line 192 is missing.
ShadingAcceptsAny(value) == TRUE

\* Line 192: the values the shading setter lets through.
ShadingAccepts(value) == value \in {"None", "flat", "smooth"}

\* Line 197: draw materializes when the dirty flag is set.
NeedsUpdate(self) == self.data_changed

\* Mutant of DrawCall: line 203 tests "is not None" instead of truth.
DrawCallWhenNotNone(self) ==
    IF self.indexed # "None" THEN "triangles, _faces" ELSE "triangles"

\* Lines 203-206: the draw call; None and False both take the else branch.
DrawCall(self) ==
    IF self.indexed = "True" THEN "triangles, _faces" ELSE "triangles"

\* Mutant of Submitted: the draw call is issued although a step raised.
SubmittedDespiteError(self, fail) == DrawCall(self)

\* Lines 195-206: the draw call the request issues; self is the node at
\* line 203.  An exception raised above leaves draw before that line.
Submitted(self, fail) == IF fail = 0 THEN DrawCall(self) ELSE "none"

\* Mutant of DrawRequest: the transform is bound only while it is unbound
\* (line 200 moved behind a test).
DrawRequestBindTransformOnce(self, ev, fail) ==
    LET s1 == IF NeedsUpdate(self) THEN UpdateData(self, fail) ELSE self
    IN  [s1 EXCEPT !.program.transform =
                       IF Ran(fail, StepBindTransform) /\ @ = "unset"
                       THEN ev ELSE @]

\* Lines 196-200: the node after the request, up to the draw call.
DrawRequest(self, ev, fail) ==
    LET s1 == IF NeedsUpdate(self) THEN UpdateData(self, fail) ELSE self
    IN  [s1 EXCEPT !.program.transform =
                       IF Ran(fail, StepBindTransform) THEN ev ELSE @]

\* Mutant of DrawCalls: the draw call (lines 203-206) comes before the
\* test of the dirty flag (line 197).
DrawCallsDrawFirst(self, fail) ==
    LET Done(k) == /\ Ran(fail, k)
                   /\ StepExists(self, k)
                   /\ (k \in UpdateSteps => NeedsUpdate(self))
        ks == SelectSeq([k \in Steps |-> k], Done)
    IN  <<"set_state", "draw">> \o [i \in 1..Len(ks) |-> StepNames[ks[i]]]

\* The calls a draw request completes.
DrawCalls(self, fail) ==
    LET Done(k) == /\ Ran(fail, k)
                   /\ StepExists(self, k)
                   /\ (k \in UpdateSteps => NeedsUpdate(self))
        ks == SelectSeq([k \in Steps |-> k], Done)
    IN  <<"set_state">> \o [i \in 1..Len(ks) |-> StepNames[ks[i]]]
          \o (IF fail = 0 THEN <<"draw">> ELSE <<>>)

RenderState == "translucent, depth_test, cull_face=front_and_back"

\* The node after __init__ (lines 71-106): the buffers of lines 87-90,
\* _indexed = None, and set_data has set the dirty flag.
NewNode(md, c, sh) ==
    [meshdata |-> md, color |-> c, shading |-> sh, data_changed |-> TRUE,
     vertices |-> [id |-> 1,
                   data |-> [i \in 1..InitVertexCount |-> <<"v", 0>>]],
     normals |-> <<>>, faces |-> <<>>, colors |-> <<>>,
     indexed |-> "None", program |-> EmptyProgram]

Init ==
    /\ node \in {NewNode(md, DefaultColor, sh) : md \in Meshes, sh \in Shadings}
    /\ gl_state = "default"
    /\ last = Report("init", "None", 0, "none", FALSE, <<"update">>, "none")
    /\ prev = [op |-> "none", error |-> "none"]
    /\ drawn = 0
    /\ requests = 0

\* mesh_data_changed (lines 124-126).
MeshDataChanged ==
    /\ node' = [node EXCEPT !.data_changed = TRUE]
    /\ last' = Report("mesh_data_changed", "None", 0, "none", FALSE, <<"update">>, "none")
    /\ UNCHANGED gl_state

\* set_data (lines 108-122); c = "None" leaves the uniform color.
SetData(md, c) ==
    /\ node' = [node EXCEPT !.meshdata = md,
                            !.color = IF c # "None" THEN c ELSE @,
                            !.data_changed = TRUE]
    /\ last' = Report("set_data", "None", 0, "none", FALSE, <<"update">>, "none")
    /\ UNCHANGED gl_state

\* The shading setter (lines 190-193).
SetShading(value) ==
    /\ node' = [node EXCEPT !.shading = IF ShadingAccepts(value)
                                        THEN value ELSE @]
    /\ last' = Report("shading", value, 0,
                      IF ShadingAccepts(value) THEN "none"
                      ELSE "AssertionError",
                      FALSE, <<>>, "none")
    /\ UNCHANGED gl_state

\* draw (lines 195-206); step fail of the request raises (0: none does).
Draw(ev, fail) ==
    /\ fail # 0 =>
          /\ StepExists(node, fail)
          /\ fail \in UpdateSteps => NeedsUpdate(node)
    /\ node' = DrawRequest(node, ev, fail)
    /\ gl_state' = RenderState
    /\ last' = Report("draw", ev, fail,
                      IF fail = 0 THEN "none" ELSE "BackendError",
                      NeedsUpdate(node),
                      DrawCalls(node, fail),
                      Submitted(node', fail))

\* One more request, while the bound allows it.
CanRequest == requests < MaxRequests

Record ==
    /\ prev' = [op |-> last.op, error |-> last.error]
    /\ drawn' = IF last'.op = "draw" /\ last'.error = "none"
                THEN drawn + 1 ELSE drawn
    /\ requests' = requests + 1

Next ==
    \/ CanRequest /\ MeshDataChanged /\ Record
    \/ CanRequest /\ (\E md \in MeshInputs, c \in {"None", "c_red"} : SetData(md, c))
                  /\ Record
    \/ CanRequest /\ (\E value \in ShadingInputs : SetShading(value)) /\ Record
    \/ CanRequest /\ (\E ev \in Transforms, fail \in {0} \cup Steps : Draw(ev, fail))
                  /\ Record

Spec == Init /\ [][Next]_vars

\* ------------------------------------------------------------- claims
\* The contents of the four buffers of a node.
Buffers(n) == <<n.vertices.data, n.normals, n.faces, n.colors>>

DrawOk(r) == r.op = "draw" /\ r.error = "none"

\* The last request is a draw that ran _update_data and returned.
Materialized == DrawOk(last) /\ last.updated

\* C1: when a completed draw directly follows a completed draw (no set_data
\* or mesh_data_changed in between), the second draw does not run
\* _update_data and the four buffers are as they were at the first draw.
C1_SecondDrawDoesNotMaterialize ==
    [][(DrawOk(last) /\ DrawOk(last'))
          => (~last'.updated /\ Buffers(node') = Buffers(node))]_vars

\* C2: the dirty flag is set after every set_data / mesh_data_changed, and
\* cleared after every draw whose materialization completed.
C2_DirtyFlagLifecycle ==
    /\ last.op \in {"set_data", "mesh_data_changed"} => node.data_changed
    /\ Materialized => ~node.data_changed

\* C3: after materializing a mesh that has both per-vertex and per-face
\* colors, the color array holds the per-vertex colors (in the layout of
\* the chosen representation), in every shading mode.
C3_VertexColorsTakePrecedence ==
    (Materialized /\ has_vertex_color(node.meshdata)
                  /\ has_face_color(node.meshdata))
        => node.colors = IF node.indexed = "True"
                         THEN md_vertex_colors(node.meshdata)
                         ELSE md_vertex_colors_by_faces(node.meshdata)

\* C4: after materializing with shading = flat the representation flag is
\* False (expanded), the normal array has 3 x (number of faces) entries and
\* the three entries of each face are that face's normal.
C4_FlatIsExpanded ==
    (Materialized /\ node.shading = "flat")
        => /\ node.indexed = "False"
           /\ Len(node.normals) = 3 * NFaces(node.meshdata)
           /\ \A j \in 1..NFaces(node.meshdata) : \A c \in 1..3 :
                 node.normals[3 * (j - 1) + c] = <<"fn", j>>

\* C4 witness: a flat materialization of a node whose index buffer is
\* filled, that is, whose flag an earlier indexed materialization had set
\* to True.
C4_Witness ==
    /\ Materialized
    /\ node.shading = "flat"
    /\ node.faces # <<>>
    /\ node.indexed = "False"
    /\ Len(node.normals) = 3 * MaxFaces

\* C5, as claimed: after materializing a mesh with per-vertex colors only
\* with shading = smooth, the representation is indexed and the color
\* array has as many entries as the mesh has vertices.
C5_SmoothVertexColorsIndexed ==
    (Materialized /\ node.shading = "smooth"
                  /\ has_vertex_color(node.meshdata)
                  /\ ~has_face_color(node.meshdata))
        => /\ node.indexed = "True"
           /\ Len(node.colors) = node.meshdata.nv

\* C5, amended: the same for a mesh that carries no face-indexed data.
C5_SmoothVertexColorsIndexedAmended ==
    (Materialized /\ node.shading = "smooth"
                  /\ has_vertex_color(node.meshdata)
                  /\ ~has_face_color(node.meshdata)
                  /\ ~has_face_indexed_data(node.meshdata))
        => /\ node.indexed = "True"
           /\ Len(node.colors) = node.meshdata.nv
           /\ node.colors = md_vertex_colors(node.meshdata)

C5_Witness ==
    /\ Materialized
    /\ node.shading = "smooth"
    /\ has_vertex_color(node.meshdata)
    /\ ~has_face_color(node.meshdata)
    /\ ~has_face_indexed_data(node.meshdata)
    /\ node.indexed = "True"
    /\ Len(node.colors) = MaxFaces + 2

\* C6: whenever materialization ran with shading = None, the normal array
\* is empty afterwards and the fragment color is the color value itself,
\* with no lighting function.
C6_UnlitPassThrough ==
    (Materialized /\ node.shading = "None")
        => /\ node.normals = <<>>
           /\ node.program.frag_color = "color_var"
           /\ node.program.color_var = ColorSource(node)

\* C7: a completed draw request has materialized the representation flag
\* (it is True or False, not None), issues the indexed draw call exactly
\* when the flag is True and the non-indexed one otherwise, and issues
\* exactly one draw call.
IsDrawCall(c) == c = "draw"

C7_DrawFollowsFlag ==
    DrawOk(last)
        => /\ node.indexed \in {"True", "False"}
           /\ last.drawcall = "triangles, _faces" <=> node.indexed = "True"
           /\ last.drawcall = "triangles" <=> node.indexed = "False"
           /\ Len(SelectSeq(last.calls, IsDrawCall)) = 1

C7_Witness ==
    /\ DrawOk(last)
    /\ node.indexed = "True"
    /\ last.drawcall = "triangles, _faces"
    /\ node.faces = node.meshdata.faces

\* C8: at every completed draw the representation flag and the fragment
\* color binding are those of the current shading mode and mesh: the draw
\* has materialized, the flag is True exactly when line 132 chooses the
\* indexed path for them (so only if the mode is smooth), and the lighting
\* function is bound exactly when the mode is not None.
C8_FreshAfterShadingChange ==
    DrawOk(last)
        => /\ last.updated
           /\ node.indexed = "True" <=> UseIndexed(node)
           /\ node.indexed = "True" => node.shading = "smooth"
           /\ node.program.frag_color = "phong(color_var)"
                 <=> node.shading # "None"
           /\ node.program.frag_color = "color_var"
                 <=> node.shading = "None"

\* C8 witness: draw, shading setter, draw, all completed, with no set_data;
\* the filled index buffer shows that the first draw was indexed (smooth)
\* and the mode is now flat.
C8_Witness ==
    /\ DrawOk(last)
    /\ prev = [op |-> "shading", error |-> "none"]
    /\ drawn = 2
    /\ requests = 3
    /\ node.shading = "flat"
    /\ node.faces # <<>>
    /\ node.indexed = "False"
    /\ node.program.frag_color = "phong(color_var)"

\* C9: a draw whose materialization raises leaves the four buffers and the
\* representation flag as they were before the draw, leaves the dirty flag
\* set and issues no draw call.
C9_AtomicMaterialization ==
    [][(last'.op = "draw" /\ last'.failed_step \in UpdateSteps)
          => /\ Buffers(node') = Buffers(node)
             /\ node'.vertices = node.vertices
             /\ node'.indexed = node.indexed
             /\ node'.data_changed
             /\ last'.drawcall = "none"]_vars

\* C10: the shading mode is always one of None, flat, smooth; the setter
\* returns exactly for these values and then stores the value; for any
\* other value it raises and changes no field of the node.
C10_ShadingSetterValidates ==
    /\ [](node.shading \in Shadings)
    /\ [](last.op = "shading"
            => /\ last.error = "none" <=> last.arg \in Shadings
               /\ last.error = "none" => node.shading = last.arg
               /\ last.error \in {"none", "AssertionError"})
    /\ [][(last'.op = "shading" /\ last'.error # "none")
            => (node' = node /\ gl_state' = gl_state)]_vars

C10_Witness ==
    /\ last.op = "shading"
    /\ last.error = "AssertionError"
    /\ last.arg = "phong"
    /\ node.shading \in Shadings

\* C11: data whose faces index a vertex that does not exist, or whose color
\* array has the wrong length, is rejected by set_data or, at the latest, by
\* materialization: no draw completes with such data installed.
C11_InvalidMeshRejected ==
    /\ DrawOk(last) => ValidMesh(node.meshdata)
    /\ last.error \in {"none", "AssertionError", "BackendError",
                       "InvalidMeshError"}

\* C12: after every completed materialization the flag is True exactly
\* when the mode is smooth and the mesh carries no face-indexed data; then
\* the position array is the shared vertex array, the normal array the
\* per-vertex normals and the index array the face triples; in every other
\* case the flag is False.
C12_RepresentationSelection ==
    Materialized
        => LET md == node.meshdata
               smoothShared == node.shading = "smooth" /\ ~md.face_indexed
           IN  /\ node.indexed = "True" <=> smoothShared
               /\ node.indexed = "False" <=> ~smoothShared
               /\ smoothShared
                     => /\ node.vertices.data = [i \in 1..md.nv |-> <<"v", i>>]
                        /\ node.normals = [i \in 1..md.nv |-> <<"vn", i>>]
                        /\ node.faces = md.faces

\* C12 witness: an indexed materialization, and before it an expanded one
\* (the position buffer is not the one of __init__).
C12_Witness ==
    /\ Materialized
    /\ node.shading = "smooth"
    /\ ~node.meshdata.face_indexed
    /\ node.indexed = "True"
    /\ node.faces = StripFaces(MaxFaces)
    /\ Len(node.vertices.data) = MaxFaces + 2
    /\ node.vertices.id # 1

\* C13: after every materialization the color varying is bound to the
\* uniform color exactly when the color array is empty, and to the color
\* attribute otherwise.
C13_UniformIffNoColors ==
    Materialized
        => /\ node.program.color_var.kind = "uniform" <=> node.colors = <<>>
           /\ node.program.color_var.kind = "attribute" <=> node.colors # <<>>

\* C14: whenever a materialization selects the expanded representation the
\* position array has 3 x (number of faces) entries, one per face corner in
\* face order, and the index array is empty.
C14_ExpandedLayout ==
    (Materialized /\ node.indexed = "False")
        => /\ Len(node.vertices.data) = 3 * NFaces(node.meshdata)
           /\ node.vertices.data = md_vertices_by_faces(node.meshdata)
           /\ node.faces = <<>>

\* C15: after every completed materialization of a well-formed mesh the
\* normal array (when the mode is flat or smooth) and the color array (when
\* the color is bound as an attribute) have as many entries as the position
\* array.
C15_SynchronizedArrays ==
    (Materialized /\ ValidMesh(node.meshdata))
        => /\ node.shading \in {"flat", "smooth"}
                 => Len(node.normals) = Len(node.vertices.data)
           /\ node.program.color_var.kind = "attribute"
                 => Len(node.colors) = Len(node.vertices.data)

\* C16: every completed draw has bound the transform input to the render
\* transform of its own event, and did so just before the draw call.
C16_TransformReboundPerDraw ==
    DrawOk(last)
        => /\ node.program.transform = last.arg
           /\ Len(last.calls) >= 2
           /\ last.calls[Len(last.calls) - 1] = "bind_transform"
           /\ last.calls[Len(last.calls)] = "draw"

\* C16 witness: a second completed draw, directly after a completed draw.
C16_Witness ==
    /\ DrawOk(last)
    /\ prev = [op |-> "draw", error |-> "none"]
    /\ drawn = 2
    /\ last.arg = "T2"
    /\ node.program.transform = "T2"

\* C17: inside one draw request the render state is set first, then come
\* the buffer updates of the materialization, then the program bindings,
\* then the transform binding, and the draw call is last; a completed draw
\* has done all of them.
CallRank(c) ==
    CASE c = "set_state" -> 0
      [] c \in {"vertices", "normals", "faces", "vertex_colors",
                "face_colors"} -> 1
      [] c \in {"bind_position", "bind_color", "bind_normal", "bind_frag"} -> 2
      [] c = "bind_transform" -> 3
      [] c = "draw" -> 4
      [] OTHER -> 5

Calls(r) == {r.calls[i] : i \in 1..Len(r.calls)}

C17_OrderOfSteps ==
    last.op = "draw"
        => /\ gl_state = RenderState
           /\ last.calls[1] = "set_state"
           /\ \A i \in 1..Len(last.calls) : \A j \in 1..Len(last.calls) :
                 i < j => CallRank(last.calls[i]) <= CallRank(last.calls[j])
           /\ \A i \in 1..Len(last.calls) : \A j \in 1..Len(last.calls) :
                 (i # j /\ CallRank(last.calls[i]) \in {0, 3, 4})
                    => last.calls[i] # last.calls[j]
           /\ DrawOk(last)
                 => {"set_state", "vertices", "bind_position", "bind_color",
                     "bind_frag", "bind_transform", "draw"} \subseteq Calls(last)

C17_Witness ==
    /\ DrawOk(last)
    /\ last.updated
    /\ gl_state = RenderState
    /\ last.calls = <<"set_state", "vertices", "normals", "faces",
                      "vertex_colors", "bind_position", "bind_color",
                      "bind_normal", "bind_frag", "bind_transform", "draw">>

\* C18: a draw request in which a buffer update or a program binding
\* raises issues no draw call, reports the error to the caller, and makes
\* no call after the one that raised (no retry: no call is made twice).
C18_FailureAbortsDraw ==
    (last.op = "draw" /\ last.failed_step # 0)
        => /\ last.drawcall = "none"
           /\ "draw" \notin Calls(last)
           /\ last.error # "none"
           /\ \A k \in Steps :
                 k >= last.failed_step => StepNames[k] \notin Calls(last)
           /\ \A i \in 1..Len(last.calls) : \A j \in 1..Len(last.calls) :
                 i # j => last.calls[i] # last.calls[j]

\* C18 witness: _normals.set_data raised after the position buffer was
\* updated.
C18_Witness ==
    /\ last.op = "draw"
    /\ last.failed_step = StepNormals
    /\ last.error = "BackendError"
    /\ last.calls = <<"set_state", "vertices">>
    /\ last.drawcall = "none"

\* C19: a completed materialization that changes the representation (True
\* to False or False to True) leaves the node with another position buffer
\* object than before.
C19_BufferReplacedOnChange ==
    [][(DrawOk(last') /\ last'.updated
          /\ node.indexed \in {"True", "False"}
          /\ node'.indexed # node.indexed)
          => node'.vertices.id # node.vertices.id]_vars

\* C20: at every completed draw the position input of the program is bound
\* to the node's current position buffer object.
C20_PositionBoundToCurrentBuffer ==
    DrawOk(last) => node.program.position = node.vertices.id

\* C20 witness: a completed draw on the third buffer object; it was made
\* while the node's buffer and the bound one were two different objects,
\* that is, after a request that raised between lines 144 and 156.
C20_Witness ==
    /\ DrawOk(last)
    /\ node.vertices.id = 3
    /\ node.program.position = 3

====
